---- MODULE Spec2Model ----
(***************************************************************************)
(* State-machine model of the bt-agent repository: the backtest runners    *)
(* (backtest_runner.py), the autofix retry loop (bt-tools/autofix.py), the *)
(* LLM repair call (translator.py), the /backtest handler (main.py) and    *)
(* the disk-cached data fetcher (bt-tools/data_fetcher.py).                *)
(*                                                                         *)
(* Environment assumption: generated code handed to exec() either          *)
(* completes or raises an exception derived from Exception; a request to   *)
(* leave the interpreter (SystemExit, os._exit, a kill by the resource     *)
(* limit) ends the process and is not a step of this state machine.        *)
(***************************************************************************)
EXTENDS Integers, Sequences, FiniteSets, TLC

\* ------------------------------------------------------------------ bounds

MaxAttempts == 3

\* ------------------------------------------------------- program constants

MinRows == 100
DefaultCapital == 100000
BtpCash == 100000
CpuSeconds == 30
MemMb == 2048

\* ------------------------------------------------------------ call outcomes

\* A Python call either returns a value or raises an exception of class cls
\* with message msg from the place `at`.
Return(v) == [tag |-> "return", value |-> v]
Raise(cls, msg, at) == [tag |-> "raise", cls |-> cls, msg |-> msg, at |-> at]

\* Python's None.
None == [none |-> TRUE]

\* The exception classes the modelled code raises; all derive from Exception.
ExceptionSubclasses ==
    {"FileNotFoundError", "ParserError", "ValueError", "SyntaxError",
     "RuntimeError", "NameError", "TypeError", "IndexError", "Exception",
     "re.error", "OSError", "APIConnectionError", "JSONDecodeError",
     "ValidationError", "HTTPException"}

\* `except Exception as e:` catches exactly the classes derived from Exception.
NarrowCatches(cls) == cls = "ValueError"
Catches(cls) == cls \in ExceptionSubclasses

\* traceback.format_exc(): names the exception and the place it was raised.
FormatExc(exc) == <<exc.cls, exc.msg, exc.at>>

\* The runners' outer handler: {"ok": False, "error": str(e), "traceback": ...}.
ErrorResultNoTraceback(exc) == [ok |-> FALSE, error |-> exc.msg]
ErrorResult(exc) ==
    [ok |-> FALSE, error |-> exc.msg, traceback |-> FormatExc(exc)]

\* try: <body> except Exception as e: return {...}
TryExcept(body) ==
    IF body.tag = "raise" /\ Catches(body.cls)
    THEN Return(ErrorResult(body))
    ELSE body

\* ------------------------------------------------------------- input values

\* A CSV file on disk: does the path exist, does pandas parse it, which OHLC
\* column spelling it has, and how many rows survive dropna().
Csv(e, p, c, r) == [exists |-> e, parses |-> p, cols |-> c, rows |-> r]

CsvFiles ==
    { Csv(FALSE, FALSE, "none", 0),      \* missing file
      Csv(TRUE, FALSE, "none", 0),       \* malformed
      Csv(TRUE, TRUE, "none", 150),      \* no OHLC columns
      Csv(TRUE, TRUE, "Upper", 99),      \* too short
      Csv(TRUE, TRUE, "Upper", 100),
      Csv(TRUE, TRUE, "lower", 10),      \* what the fetcher accepts
      Csv(TRUE, TRUE, "lower", 100) }

\* A code string: what exec() of it does, and whether the text contains the
\* substring "class " (read by repair_dsl).
Code(k, kw) == [kind |-> k, class_kw |-> kw]

BtStrategyCode == Code("bt_strategy", TRUE)     \* class GeneratedStrategy(bt.Strategy)
BtpStrategyCode == Code("btp_strategy", TRUE)   \* class GeneratedStrategy(backtesting.Strategy)

Codes ==
    { BtStrategyCode, BtpStrategyCode,
      Code("syntax_error", TRUE), Code("raises", TRUE),
      Code("no_class", TRUE), Code("no_class", FALSE) }

\* What the engine's analyzers report for a finished run.
Analyses ==
    { [sharpe |-> 0, maxdd |-> 0, rtot |-> 0, rtot100 |-> 0, total |-> 0,
       won |-> 0, lost |-> 0, sqn |-> 0, win_max |-> 0, loss_max |-> 0],
      [sharpe |-> 1, maxdd |-> 12, rtot |-> 1, rtot100 |-> 8, total |-> 4,
       won |-> 3, lost |-> 1, sqn |-> 2, win_max |-> 900, loss_max |-> 300] }

PvEnds == {95000, 100000}

\* What the environment decides during one runner call: whether the engine
\* raises while running the strategy, which analyzer read raises (0: none,
\* 1..5: sharpe, drawdown, returns, trades, sqn; 6: the summary arithmetic),
\* whether broker.getvalue() works, and the figures reported.
RunnerEnvs ==
    [engine_raises : BOOLEAN, raise_at : 0..6, broker_ok : BOOLEAN,
     pv_end : PvEnds, an : Analyses, n_trades : 0..1]

\* ------------------------------------------------------ backtest_runner.py

\* Names bound in backtest_runner's module namespace (its imports and defs).
ModuleGlobals ==
    {"json", "traceback", "os", "sys", "signal", "resource", "time", "pd",
     "np", "logging", "Dict", "Any", "Optional", "bt", "logger",
     "limit_resources", "run_backtestingpy", "run_backtrader"}

\* limit_resources(): setrlimit on the calling process, never undone.
LimitResources(rl) == [cpu |-> CpuSeconds, mem_mb |-> MemMb]

MetricKeys == <<"sharpe", "drawdown", "returns", "trades", "sqn", "summary">>

SummaryFields ==
    {"pv_start", "pv_end", "strategy_return_pct", "buy_hold_return_pct",
     "strategy_vs_buy_hold_pct", "strategy_max_dd_pct", "buy_hold_max_dd_pct",
     "drawdown_diff_pct", "win_rate_pct", "total_trades", "won_trades",
     "lost_trades", "avg_pnl_per_trade", "largest_win", "largest_loss"}

Max(a, b) == IF a >= b THEN a ELSE b

\* The dictionary the try block of run_backtrader builds when nothing raises.
FullMetrics(initial_capital, pv_end, an) ==
    [sharpe |-> an.sharpe,
     drawdown |-> [max |-> [drawdown |-> an.maxdd], drawdown |-> an.maxdd],
     returns |-> [rtot |-> an.rtot, rtot100 |-> an.rtot100],
     trades |-> [total |-> [closed |-> an.total, total |-> an.total]],
     sqn |-> [sqn |-> an.sqn],
     summary |->
        [pv_start |-> initial_capital,
         pv_end |-> pv_end,
         strategy_return_pct |-> an.rtot100,
         buy_hold_return_pct |-> 0,
         strategy_vs_buy_hold_pct |-> an.rtot100,
         strategy_max_dd_pct |-> an.maxdd,
         buy_hold_max_dd_pct |-> 0,
         drawdown_diff_pct |-> an.maxdd,
         win_rate_pct |-> (an.won * 100) \div Max(an.total, 1),
         total_trades |-> an.total,
         won_trades |-> an.won,
         lost_trades |-> an.lost,
         avg_pnl_per_trade |-> 0,
         largest_win |-> an.win_max,
         largest_loss |-> an.loss_max]]

\* The "basic metrics" of the except branch.
FallbackMetrics(initial_capital, pv_end) ==
    [sharpe |-> 0,
     drawdown |-> [max |-> [drawdown |-> 0], drawdown |-> 0],
     returns |-> [rtot |-> 0, rtot100 |-> 0],
     trades |-> [total |-> [closed |-> 0, total |-> 0]],
     sqn |-> [sqn |-> 0],
     summary |->
        [pv_start |-> initial_capital,
         pv_end |-> pv_end,
         strategy_return_pct |-> 0,
         buy_hold_return_pct |-> 0,
         strategy_vs_buy_hold_pct |-> 0,
         strategy_max_dd_pct |-> 0,
         buy_hold_max_dd_pct |-> 0,
         drawdown_diff_pct |-> 0,
         win_rate_pct |-> 0,
         total_trades |-> 0,
         won_trades |-> 0,
         lost_trades |-> 0,
         avg_pnl_per_trade |-> 0,
         largest_win |-> 0,
         largest_loss |-> 0]]

\* metrics after the first k assignments of the try block.
PartialMetrics(k, full) ==
    [key \in {MetricKeys[i] : i \in 1..k} |-> full[key]]

\* The step of the try block that raises (0: none). The summary reads
\* broker.getvalue() first, so a failing broker raises at step 6.
RaisedAt(env) ==
    IF env.raise_at # 0 THEN env.raise_at
    ELSE IF ~env.broker_ok THEN 6 ELSE 0

\* A handler that only logs would leave the partially built dictionary.
ExtractMetricsKeepPartial(initial_capital, env) ==
    IF RaisedAt(env) = 0
    THEN Return(FullMetrics(initial_capital, env.pv_end, env.an))
    ELSE Return(PartialMetrics(RaisedAt(env) - 1,
                               FullMetrics(initial_capital, env.pv_end, env.an)))

\* metrics = {}; try: ... except Exception: metrics = {basic metrics}
ExtractMetrics(initial_capital, env) ==
    IF RaisedAt(env) = 0
    THEN Return(FullMetrics(initial_capital, env.pv_end, env.an))
    ELSE IF env.broker_ok
         THEN Return(FallbackMetrics(initial_capital, env.pv_end))
         ELSE Raise("RuntimeError", "broker.getvalue failed", "metrics fallback")

\* The trade history; its own try/except swallows every error.
TradeHistory(env) == [i \in 1..env.n_trades |-> [type |-> "buy", pnl |-> 0]]

\* exec(code_str, namespace, namespace) and the GeneratedStrategy lookup.
ExecStrategy(code) ==
    CASE code.kind = "syntax_error" -> Raise("SyntaxError", "invalid syntax", "exec")
      [] code.kind = "raises" -> Raise("RuntimeError", "error in generated code", "exec")
      [] code.kind = "no_class" ->
            Raise("ValueError", "GeneratedStrategy class not found in code", "class lookup")
      [] OTHER -> Return(code.kind)

\* The body of run_backtrader's outer try block.
RunBacktraderBody(csv, code, initial_capital, env) ==
    IF ~csv.exists
    THEN Raise("FileNotFoundError", "No such file or directory", "read_csv")
    ELSE IF ~csv.parses
    THEN Raise("ParserError", "Error tokenizing data", "read_csv")
    ELSE IF csv.cols = "none"
    THEN Raise("ValueError", "Missing required columns", "columns")
    ELSE IF csv.rows < MinRows
    THEN Raise("ValueError", "Insufficient data for backtesting", "dropna")
    ELSE IF ExecStrategy(code).tag = "raise"
    THEN ExecStrategy(code)
    ELSE IF ExecStrategy(code).value # "bt_strategy"
    THEN Raise("TypeError", "strategy class is not a backtrader strategy", "cerebro.run")
    ELSE IF env.engine_raises
    THEN Raise("RuntimeError", "error while running the strategy", "cerebro.run")
    ELSE IF ExtractMetrics(initial_capital, env).tag = "raise"
    THEN ExtractMetrics(initial_capital, env)
    ELSE IF ~env.broker_ok
    THEN Raise("RuntimeError", "broker.getvalue failed", "return")
    ELSE Return([ok |-> TRUE,
                 metrics |-> ExtractMetrics(initial_capital, env).value,
                 trades |-> TradeHistory(env),
                 equity_curve |-> "None",
                 final_value |-> env.pv_end])

RunBacktrader(csv, code, initial_capital, env) ==
    TryExcept(RunBacktraderBody(csv, code, initial_capital, env))

\* The metrics run_backtestingpy builds from the engine's stats.
BtpMetrics(pv_end, an) ==
    [sharpe |-> an.sharpe,
     drawdown |-> [max |-> [drawdown |-> an.maxdd], drawdown |-> an.maxdd],
     returns |-> [rtot |-> an.rtot, rtot100 |-> an.rtot100],
     trades |-> [total |-> [closed |-> an.total, total |-> an.total]],
     sqn |-> [sqn |-> an.sqn],
     summary |-> FullMetrics(BtpCash, pv_end, an).summary]

\* The body of run_backtestingpy's try block. The name Backtest is looked up
\* in the module's globals when line 70 runs.
RunBacktestingpyBody(csv, code, env) ==
    IF ~csv.exists
    THEN Raise("FileNotFoundError", "No such file or directory", "read_csv")
    ELSE IF ~csv.parses
    THEN Raise("ParserError", "Error tokenizing data", "read_csv")
    ELSE IF csv.rows < MinRows
    THEN Raise("ValueError", "Insufficient data for backtesting", "dropna")
    ELSE IF ExecStrategy(code).tag = "raise"
    THEN ExecStrategy(code)
    ELSE IF "Backtest" \notin ModuleGlobals
    THEN Raise("NameError", "name 'Backtest' is not defined", "Backtest")
    ELSE IF csv.cols = "none" \/ ExecStrategy(code).value # "btp_strategy"
    THEN Raise("TypeError", "engine rejects the data or the strategy class", "Backtest")
    ELSE IF env.engine_raises
    THEN Raise("RuntimeError", "error while running the strategy", "bt.run")
    ELSE Return([ok |-> TRUE,
                 metrics |-> BtpMetrics(env.pv_end, env.an),
                 trades |-> TradeHistory(env),
                 equity_curve |-> "curve",
                 final_value |-> env.pv_end])

RunBacktestingpy(csv, code, env) ==
    TryExcept(RunBacktestingpyBody(csv, code, env))

\* The runner named `runner`, called as the callers do.
CallRunner(runner, csv, code, initial_capital, env) ==
    IF runner = "run_backtrader"
    THEN RunBacktrader(csv, code, initial_capital, env)
    ELSE RunBacktestingpy(csv, code, env)

\* The backtesting framework whose engine a runner drives.
RunnerFramework(runner) ==
    IF runner = "run_backtrader" THEN "backtrader" ELSE "backtestingpy"

\* ------------------------------------------------------------------ dsl.py

Frameworks == {"backtrader", "backtestingpy"}

\* Indicator.fn: the Literal of the schema.
IndicatorFns ==
    {"SMA", "EMA", "WMA", "RSI", "MACD", "ATR", "BBANDS", "STOCH", "ADX", "VWAP"}

\* Indicator(id, fn, params); params maps parameter names to numbers.
Indicator(id, fn, params) == [id |-> id, fn |-> fn, params |-> params]

\* Empty params.
NoParams == [k \in {} |-> 0]

\* dict.get(key, default).
Get(params, key, default) ==
    IF key \in DOMAIN params THEN params[key] ELSE default

\* Signals: each of the four expressions is None or a text. A text is held
\* as the sequence of its words (maximal runs of \w characters) and of the
\* other characters between them, blanks left out; a name and the '(' of a
\* call stand next to each other.
Signals(el, xl, es, xs) ==
    [entry_long |-> el, exit_long |-> xl, entry_short |-> es, exit_short |-> xs]

\* Timeframes held in a DSL are sequences of characters.
\* valid_tf: any(v.endswith(s) for s in ["m", "h", "d"]).
ValidTf(v) == Len(v) > 0 /\ v[Len(v)] \in {"m", "h", "d"}

\* The timeframes the comment of valid_tf and the translator's prompt list.
AllowedTimeframes ==
    {<<"1", "m">>, <<"5", "m">>, <<"1", "5", "m">>, <<"1", "h">>,
     <<"4", "h">>, <<"1", "d">>}

\* DSL(**data): the Literal types of framework and of every indicator's fn,
\* and the timeframe validator.
SchemaValid(d) ==
    /\ d.framework \in Frameworks
    /\ \A i \in 1..Len(d.indicators) : d.indicators[i].fn \in IndicatorFns
    /\ ValidTf(d.timeframe)

\* The DSL of test_system.py.
TestIndicators ==
    <<Indicator("ema_fast", "EMA", ("period" :> 20)),
      Indicator("ema_slow", "EMA", ("period" :> 50))>>

TestSignals ==
    Signals(<<"cross", "(", "ema_fast", ",", "ema_slow", ")">>,
            <<"cross_down", "(", "ema_fast", ",", "ema_slow", ")">>, None, None)

\* The validated DSL instances handed to the callers of the compiler.
DSLs ==
    [framework : Frameworks,
     timeframe : {<<"1", "h">>},
     indicators : {TestIndicators,
                   <<Indicator("ema(20", "EMA", ("period" :> 20))>>},
     signals : {TestSignals}]

\* ---------------------------------------------------------- compiler_btp.py

\* A word (\w+), as against the characters and operators that are none.
IsWord(atom) ==
    atom \notin {"(", ")", ",", ".", "[", "]", "'", ">", "<", ">=", "<=", "==",
                 "!=", "&&", "||", "+", "-", "*", "/"}

\* Flatten a sequence of sequences.
RECURSIVE Flatten(_)
Flatten(ss) == IF ss = <<>> THEN <<>> ELSE Head(ss) \o Flatten(Tail(ss))

\* clean_expression. The replacements of lines 33-36 and 45 put back what
\* they match; line 39 is re.sub(r'(\w+)\(', r'self._\1(', expr) and line 42
\* is re.sub(r'(\w+)\[(\d+)\]', r'self.data.\1[\2]', expr).
CleanExpression(expr) ==
    LET SubCalls(e) ==
            Flatten([i \in 1..Len(e) |->
                        IF IsWord(e[i]) /\ i < Len(e) /\ e[i + 1] = "("
                        THEN <<"self", ".", "_" \o e[i]>>
                        ELSE <<e[i]>>])
        DigitWords == {"0", "1", "2", "14", "20", "30", "70"}
        SubArrayAccess(e) ==
            Flatten([i \in 1..Len(e) |->
                        IF /\ IsWord(e[i]) /\ i + 3 <= Len(e) /\ e[i + 1] = "["
                           /\ e[i + 2] \in DigitWords /\ e[i + 3] = "]"
                        THEN <<"self", ".", "data", ".", e[i]>>
                        ELSE <<e[i]>>])
        ops == [i \in 1..Len(expr) |->
                   IF expr[i] = "&&" THEN "and"
                   ELSE IF expr[i] = "||" THEN "or" ELSE expr[i]]
    IN IF expr = <<>> THEN <<"False">> ELSE SubArrayAccess(SubCalls(ops))

\* conv() raises re.error when it reaches the loop over the indicators with
\* an id that r'\b' + id + r'\b' makes no regular expression of.
ConvRaises(expr, indicators) ==
    LET PatternCompiles(id) == id \notin {"ema(20"} IN
    /\ expr # <<>>
    /\ \E i \in 1..Len(indicators) : ~PatternCompiles(indicators[i].id)

\* conv(expr) for an expression it does not reject: clean_expression, the
\* price_volume_map loop, the loop over the indicators, the
\* indicator_patterns loop, and line 108, where self.ind['self.ind['X']']
\* becomes self.ind['X'], leftmost match first. The rewrites of lines
\* 111-112 need a ']' directly followed by '_', which the substitutions
\* above do not produce from whole words.
Conv(expr, indicators) ==
    LET \* re.sub(r'\b' + word + r'\b', replacement, e) for a word.
        SubWord(e, word, replacement) ==
            IF \A i \in 1..Len(e) : e[i] # word THEN e
            ELSE Flatten([i \in 1..Len(e) |->
                             IF e[i] = word THEN replacement ELSE <<e[i]>>])
        \* price_volume_map, in the order of the dictionary.
        PriceVolumeMap ==
            << <<"close", "close">>, <<"volume", "volume">>, <<"high", "high">>,
               <<"low", "low">>, <<"open", "open">>, <<"price", "close">>,
               <<"vol", "volume">>, <<"c", "close">>, <<"v", "volume">>,
               <<"h", "high">>, <<"l", "low">>, <<"o", "open">> >>
        \* indicator_patterns, in the order of the dictionary.
        IndicatorPatterns ==
            << <<"bb_upper", "bb_upper">>, <<"bb_lower", "bb_lower">>,
               <<"bb_middle", "bb_middle">>, <<"bb_mid", "bb_middle">>,
               <<"bb_top", "bb_upper">>, <<"bb_bot", "bb_lower">>,
               <<"vol_sma", "vol_sma">>, <<"volume_sma", "vol_sma">>,
               <<"atr", "atr">>, <<"rsi", "rsi">>, <<"macd", "macd_line">>,
               <<"macd_signal", "signal_line">>, <<"macd_hist", "histogram">> >>
        IndRef(key) == <<"self", ".", "ind", "[", "'", key, "'", "]">>
        DataRef(field) == <<"self", ".", "data", ".", field, "[", "0", "]">>
        RECURSIVE SubPrices(_, _)
        SubPrices(e, k) ==
            IF k > Len(PriceVolumeMap) THEN e
            ELSE SubPrices(SubWord(e, PriceVolumeMap[k][1],
                                   DataRef(PriceVolumeMap[k][2])), k + 1)
        RECURSIVE SubIndicators(_, _)
        SubIndicators(e, k) ==
            IF k > Len(indicators) THEN e
            ELSE SubIndicators(SubWord(e, indicators[k].id, IndRef(indicators[k].id)),
                               k + 1)
        RECURSIVE SubPatterns(_, _)
        SubPatterns(e, k) ==
            IF k > Len(IndicatorPatterns) THEN e
            ELSE SubPatterns(SubWord(e, IndicatorPatterns[k][1],
                                     IndRef(IndicatorPatterns[k][2])), k + 1)
        NestedAt(e, i) ==
            /\ i + 14 <= Len(e)
            /\ SubSeq(e, i, i + 4) = <<"self", ".", "ind", "[", "'">>
            /\ SubSeq(e, i + 5, i + 9) = <<"self", ".", "ind", "[", "'">>
            /\ e[i + 10] # "'"
            /\ SubSeq(e, i + 11, i + 14) = <<"'", "]", "'", "]">>
        RECURSIVE Unnest(_, _)
        Unnest(e, i) ==
            IF i > Len(e) THEN <<>>
            ELSE IF NestedAt(e, i) THEN IndRef(e[i + 10]) \o Unnest(e, i + 15)
            ELSE <<e[i]>> \o Unnest(e, i + 1)
    IN IF expr = <<>> THEN <<"False">>
       ELSE Unnest(SubPatterns(SubIndicators(SubPrices(CleanExpression(expr), 1), 1),
                               1), 1)

\* `signal or ""`.
OrEmpty(signal) == IF signal = None THEN <<>> ELSE signal

\* One statement self.ind[key] = value of the generated __init__.
Assign(key, value) == [key |-> key, value |-> value]

\* bt.indicators.<ctor>(<feed>, <args>), and a line of such an object.
Ind(ctor, feed, args) == [ctor |-> ctor, feed |-> feed, args |-> args, line |-> "self"]
Line(ind, name) == [ind EXCEPT !.line = name]

BBands(period, devfactor) ==
    Ind("bt.indicators.BBands", "self.data.close",
        ("period" :> period @@ "devfactor" :> devfactor))

BBandsAssigns(bb) ==
    <<Assign("bb_upper", Line(bb, "top")), Assign("bb_middle", Line(bb, "mid")),
      Assign("bb_lower", Line(bb, "bot")), Assign("bb", Line(bb, "mid"))>>

\* The statements one indicator adds (lines 136-177).
IndicatorAssigns(ind) ==
    LET period14 == ("period" :> Get(ind.params, "period", 14)) IN
    CASE ind.fn \in {"EMA", "SMA"} ->
            <<Assign(ind.id, Ind("bt.indicators." \o ind.fn, "self.data.close",
                                 ("period" :> Get(ind.params, "period", 20))))>>
      [] ind.fn = "ATR" ->
            <<Assign(ind.id, Ind("bt.indicators.ATR", "self.data", period14))>>
      [] ind.fn = "RSI" ->
            <<Assign(ind.id, Ind("bt.indicators.RSI", "self.data.close", period14))>>
      [] ind.fn = "MACD" ->
            LET macd == Ind("bt.indicators.MACD", "self.data.close",
                            [k \in {"period_me1", "period_me2", "period_signal"} |->
                                CASE k = "period_me1" -> Get(ind.params, "fast", 12)
                                  [] k = "period_me2" -> Get(ind.params, "slow", 26)
                                  [] OTHER -> Get(ind.params, "signal", 9)])
            IN <<Assign("macd_line", Line(macd, "macd")),
                 Assign("signal_line", Line(macd, "signal")),
                 Assign("histogram", Line(macd, "histo"))>>
      [] ind.fn = "BBANDS" ->
            LET std == Get(ind.params, "std", 2)
                deviation == Get(ind.params, "deviation", 2)
            IN BBandsAssigns(BBands(Get(ind.params, "period", 20),
                                    IF std # 0 THEN std ELSE deviation))
      [] ind.fn = "STOCH" ->
            LET stoch == Ind("bt.indicators.Stochastic", "self.data", period14)
            IN <<Assign("stoch_k", Line(stoch, "percK")),
                 Assign("stoch_d", Line(stoch, "percD"))>>
      [] ind.fn = "ADX" ->
            LET adx == Ind("bt.indicators.ADX", "self.data", period14)
            IN <<Assign("adx", Line(adx, "adx")), Assign("di_plus", Line(adx, "dip")),
                 Assign("di_minus", Line(adx, "dim"))>>
      [] ind.fn = "VWAP" ->
            <<Assign(ind.id, Ind("bt.indicators.VWAP", "self.data", period14))>>
      [] OTHER -> <<>>

\* The loop of lines 127-177: a repeated id is skipped, and so is every
\* Bollinger indicator after the first.
RECURSIVE IndicatorLoop(_, _, _, _)
IndicatorLoop(indicators, k, indicator_set, bb_created) ==
    IF k > Len(indicators) THEN [code |-> <<>>, indicator_set |-> indicator_set]
    ELSE LET ind == indicators[k] IN
         IF ind.id \in indicator_set
         THEN IndicatorLoop(indicators, k + 1, indicator_set, bb_created)
         ELSE LET rest == IndicatorLoop(indicators, k + 1,
                                        indicator_set \cup {ind.id},
                                        bb_created \/ ind.fn = "BBANDS")
              IN IF ind.fn = "BBANDS" /\ bb_created THEN rest
                 ELSE [rest EXCEPT !.code = IndicatorAssigns(ind) \o rest.code]

\* Lines 179-189: the indicators added when no indicator has their id.
DefaultAssigns(indicator_set) ==
    (IF "vol_sma" \notin indicator_set
     THEN <<Assign("vol_sma", Ind("bt.indicators.SMA", "self.data.volume",
                                  ("period" :> 10)))>>
     ELSE <<>>)
    \o (IF "bb_upper" \notin indicator_set THEN BBandsAssigns(BBands(20, 2))
        ELSE <<>>)
    \o (IF "atr" \notin indicator_set
        THEN <<Assign("atr", Ind("bt.indicators.ATR", "self.data", ("period" :> 14)))>>
        ELSE <<>>)

\* The text compile_btp returns, by its parts: what exec() makes of it, the
\* class statement, the statements of __init__ that fill self.ind, the
\* methods, and next() with its four conditions and the order calls.
GeneratedCode(d) ==
    LET loop == IndicatorLoop(d.indicators, 1, {}, FALSE) IN
    [kind |-> "bt_strategy",
     class_kw |-> TRUE,
     class_name |-> "GeneratedStrategy",
     base |-> "bt.Strategy",
     init |-> loop.code \o DefaultAssigns(loop.indicator_set),
     methods |-> {"__init__", "_cross_over", "_cross_under", "_volume_high",
                 "_calculate_position_size", "next", "notify_order",
                 "notify_trade"},
     next |-> [exit_long |-> Conv(OrEmpty(d.signals.exit_long), d.indicators),
               exit_short |-> Conv(OrEmpty(d.signals.exit_short), d.indicators),
               entry_long |-> Conv(OrEmpty(d.signals.entry_long), d.indicators),
               entry_short |-> Conv(OrEmpty(d.signals.entry_short), d.indicators),
               calls |-> {"self.close", "self.buy", "self.sell"}]]

\* compile_btp: the class template is fixed, `class GeneratedStrategy(bt.Strategy)`,
\* whatever dsl.framework says; the four conv() calls come first.
CompileBtp(d) ==
    IF \E f \in {"entry_long", "entry_short", "exit_long", "exit_short"} :
           ConvRaises(OrEmpty(d.signals[f]), d.indicators)
    THEN Raise("re.error", "missing ), unterminated subpattern", "conv")
    ELSE Return(GeneratedCode(d))

\* The framework a strategy class is written against.
CodeTarget(c) ==
    CASE c.kind = "bt_strategy" -> "backtrader"
      [] c.kind = "btp_strategy" -> "backtestingpy"
      [] OTHER -> "none"

\* ----------------------------------------------------------- translator.py

\* What the hosted model does with one request: it answers with a text, or
\* the call fails.
LlmFailure == [kind |-> "llm_error", class_kw |-> FALSE]
LlmReplies == Codes \cup {LlmFailure}

\* The request repair_dsl sends (its prompt carries the three arguments).
RepairPrompt(error_message, tb, c) ==
    [error |-> error_message, traceback |-> tb, code |-> c]

\* repair_dsl: the prompt is formatted outside the try block and reads
\* code.split('class ')[1]; then llm.invoke, whose failure is re-raised.
RepairDsl(error_message, tb, c, reply) ==
    IF ~c.class_kw
    THEN Raise("IndexError", "list index out of range", "repair_prompt")
    ELSE IF reply = LlmFailure
    THEN Raise("Exception", "Repair failed", "llm.invoke")
    ELSE Return(reply)

\* Whether repair_dsl reaches llm.invoke for code c.
RepairInvokesLlm(c) == c.class_kw

\* ------------------------------------------------- bt-tools/data_fetcher.py

\* Symbols are sequences of characters.
LowerLetters == <<"a", "b", "c", "d", "e", "f", "g", "h", "i", "j", "k", "l", "m",
                  "n", "o", "p", "q", "r", "s", "t", "u", "v", "w", "x", "y", "z">>
UpperLetters == <<"A", "B", "C", "D", "E", "F", "G", "H", "I", "J", "K", "L", "M",
                  "N", "O", "P", "Q", "R", "S", "T", "U", "V", "W", "X", "Y", "Z">>

\* str.upper(), one character.
UpperCh(c) ==
    IF \E i \in 1..26 : LowerLetters[i] = c
    THEN UpperLetters[CHOOSE i \in 1..26 : LowerLetters[i] = c]
    ELSE c

UpperStr(s) == [i \in 1..Len(s) |-> UpperCh(s[i])]

\* str.isalpha() on upper-cased ASCII text.
IsAlpha(s) ==
    /\ Len(s) > 0
    /\ \A i \in 1..Len(s) : \E j \in 1..26 : UpperLetters[j] = s[i]

\* str.replace(c, '').
RemoveCh(s, c) == SelectSeq(s, LAMBDA x : x # c)

\* str.strip().
Strip(s) ==
    LET idx == {i \in 1..Len(s) : s[i] # " "} IN
    IF idx = {} THEN <<>>
    ELSE SubSeq(s, CHOOSE i \in idx : \A j \in idx : i <= j,
                   CHOOSE i \in idx : \A j \in idx : i >= j)

EndsWith(s, t) ==
    Len(s) >= Len(t) /\ SubSeq(s, Len(s) - Len(t) + 1, Len(s)) = t

Contains(s, c) == \E i \in 1..Len(s) : s[i] = c

\* str.split(sep) for a one-character separator.
Split(s, sep) ==
    LET RECURSIVE go(_, _, _)
        go(i, cur, acc) ==
            IF i > Len(s) THEN Append(acc, cur)
            ELSE IF s[i] = sep THEN go(i + 1, <<>>, Append(acc, cur))
            ELSE go(i + 1, Append(cur, s[i]), acc)
    IN go(1, <<>>, <<>>)

NonEmptyParts(s, sep) == SelectSeq(Split(s, sep), LAMBDA p : p # <<>>)

CryptoBases ==
    { <<"B","T","C">>, <<"E","T","H">>, <<"S","O","L">>, <<"X","R","P">>,
      <<"A","D","A">>, <<"D","O","G","E">>, <<"L","T","C">>, <<"B","C","H">>,
      <<"B","N","B">>, <<"A","V","A","X">>, <<"D","O","T">>, <<"S","H","I","B">>,
      <<"M","A","T","I","C">>, <<"L","I","N","K">>, <<"T","R","X">>,
      <<"X","L","M">>, <<"X","M","R">>, <<"E","T","C">>, <<"U","N","I">>,
      <<"A","T","O","M">>, <<"F","I","L">>, <<"N","E","A","R">> }

CryptoQuotes == { <<"U","S","D","T">>, <<"B","T","C">>, <<"E","T","H">> }

\* A normalizer without the loop over the separators.
UpperOnly(upper) == upper

\* The `for sep in ('/', '_')` loop and the fallback of the normalizer.
PairOrUpper(upper) ==
    LET ps == NonEmptyParts(upper, "/")
        pu == NonEmptyParts(upper, "_")
    IN IF Contains(upper, "/") /\ Len(ps) = 2 /\ Len(ps[2]) >= 2 /\ Len(ps[2]) <= 5
       THEN ps[1] \o <<"-">> \o ps[2]
       ELSE IF Contains(upper, "_") /\ Len(pu) = 2 /\ Len(pu[2]) >= 2 /\ Len(pu[2]) <= 5
       THEN pu[1] \o <<"-">> \o pu[2]
       ELSE upper


NormalizeSymbolForYfinance(symbol) ==
    LET s == Strip(symbol)
        upper == RemoveCh(UpperStr(s), " ")
        merged == RemoveCh(RemoveCh(RemoveCh(upper, "/"), "_"), "-")
    IN IF symbol = <<>> THEN symbol
       ELSE IF s = <<>> THEN s
       ELSE IF s[1] = "^" \/ EndsWith(s, <<"=", "X">>) THEN s
       ELSE IF Contains(upper, "-") /\ Len(Split(upper, "-")) = 2 THEN upper
       ELSE IF Len(merged) = 6 /\ IsAlpha(merged)
       THEN IF SubSeq(merged, 1, 3) \in CryptoBases
               \/ SubSeq(merged, 4, 6) \in CryptoQuotes
            THEN SubSeq(merged, 1, 3) \o <<"-">> \o SubSeq(merged, 4, 6)
            ELSE merged \o <<"=", "X">>
       ELSE PairOrUpper(upper)

\* A datetime: the calendar day and the time within it.
Dt(d, t) == [day |-> d, tod |-> t]

DtAfter(a, b) == a.day > b.day \/ (a.day = b.day /\ a.tod > b.tod)

\* timedelta(days=365).
YearDays == 365

MinusYear(a) == Dt(a.day - YearDays, a.tod)

\* strftime('%Y-%m-%d').
DateStr(a) == a.day

\* _map_timeframe.
MapTimeframe(timeframe) ==
    IF timeframe \in {"1m", "5m", "15m", "30m", "1h", "4h", "1d"}
    THEN timeframe ELSE "1d"

MinPoints == 10

\* The first day of the modelled calendar.
FirstDay == 9

YfColumns == {"Open", "High", "Low", "Close", "Volume", "Dividends", "Stock Splits"}

RequiredCols == {"open", "high", "low", "close", "volume"}

\* What ticker.history() does: it raises, or returns a frame with or without
\* the price columns and with `rows` rows free of NaN.
ProviderOutcomes ==
    { [kind |-> "raise", cols |-> {}, rows |-> 0],
      [kind |-> "frame", cols |-> YfColumns, rows |-> 0],
      [kind |-> "frame", cols |-> {"Close"}, rows |-> 100],
      [kind |-> "frame", cols |-> YfColumns, rows |-> 9],
      [kind |-> "frame", cols |-> YfColumns, rows |-> 10],
      [kind |-> "frame", cols |-> YfColumns, rows |-> 100] }

\* A download that hands on a frame of any length.
FetchYfinanceAnyRows(symbol, start_str, end_str, timeframe, prov) ==
    IF prov.kind = "raise" \/ prov.rows = 0 THEN None
    ELSE [ticker |-> symbol, start |-> start_str, end |-> end_str,
          interval |-> MapTimeframe(timeframe), cols |-> prov.cols,
          rows |-> prov.rows]

\* _fetch_yfinance: None for every failure, else the cleaned frame.
FetchYfinance(symbol, start_str, end_str, timeframe, prov) ==
    IF prov.kind = "raise" THEN None
    ELSE IF prov.rows = 0 THEN None
    ELSE IF ~({"Open", "High", "Low", "Close", "Volume"} \subseteq prov.cols) THEN None
    ELSE IF prov.rows < MinPoints THEN None
    ELSE [ticker |-> symbol, start |-> start_str, end |-> end_str,
          interval |-> MapTimeframe(timeframe), cols |-> prov.cols,
          rows |-> prov.rows]

\* DataFrame.rename(columns={"Open": "open", ...}), one column name.
LowerCol(c) ==
    CASE c = "Open" -> "open" [] c = "High" -> "high" [] c = "Low" -> "low"
      [] c = "Close" -> "close" [] c = "Volume" -> "volume" [] OTHER -> c

\* _format_data_for_backtesting.
FormatDataForBacktesting(df) ==
    LET renamed == {LowerCol(c) : c \in df.cols}
        kept == (renamed \cap RequiredCols) \cup {"volume"}
    IN IF df.rows < MinPoints
       THEN Raise("ValueError", "Insufficient data", "format")
       ELSE Return([df EXCEPT !.cols = kept])

\* DataFrame.to_csv and pd.read_csv(index_col=0, parse_dates=True).
ToCsv(df) == [header |-> df.cols, rows |-> df.rows, ticker |-> df.ticker,
              start |-> df.start, end |-> df.end, interval |-> df.interval]
ReadCsv(f) == [ticker |-> f.ticker, start |-> f.start, end |-> f.end,
               interval |-> f.interval, cols |-> f.header, rows |-> f.rows]

\* The symbols callers pass in this model.
BtcUsd == <<"B", "T", "C", "-", "U", "S", "D">>
BtcSlashUsd == <<"b", "t", "c", "/", "u", "s", "d">>
FetchSymbols == {BtcUsd, BtcSlashUsd}

\* normalized_symbol for each of them, computed once.
NormalizedSymbol == [s \in FetchSymbols |-> NormalizeSymbolForYfinance(s)]

\* The cache file name: f"{normalized_symbol}_{start_str}_{end_str}.csv".
RawKey(symbol, start_str, end_str) == <<symbol, start_str, end_str>>
CacheKey(symbol, start_str, end_str) ==
    <<NormalizedSymbol[symbol], start_str, end_str>>

\* A file can be created in cache_dir only when its name has no '/'.
PathWritable(key) == ~Contains(key[1], "/")

Absent == [absent |-> TRUE]

\* fetch_data: the value returned or the exception raised, the cache
\* afterwards, and whether the provider was called. `files` maps the file
\* names that exist to their content.
FetchData(symbol, start_date, end_date, timeframe, clock, files, prov) ==
    LET end0 == IF end_date = None THEN clock ELSE end_date
        start0 == IF start_date = None THEN MinusYear(end0) ELSE start_date
        start1 == IF DtAfter(start0, clock) THEN MinusYear(clock) ELSE start0
        end1 == IF DtAfter(end0, clock) THEN clock ELSE end0
        key == CacheKey(symbol, DateStr(start1), DateStr(end1))
        hit == key \in DOMAIN files /\ files[key].rows > 0
        data == FetchYfinance(NormalizedSymbol[symbol], DateStr(start1), DateStr(end1),
                              timeframe, prov)
    IN IF hit
       THEN [out |-> FormatDataForBacktesting(ReadCsv(files[key])),
             files |-> files, provider_called |-> FALSE, key |-> key]
       ELSE IF data = None
       THEN [out |-> Raise("ValueError", "No data returned", "fetch_data"),
             files |-> files, provider_called |-> TRUE, key |-> key]
       ELSE IF ~PathWritable(key)
       THEN [out |-> Raise("OSError", "Cannot save file into a non-existent directory",
                           "to_csv"),
             files |-> files, provider_called |-> TRUE, key |-> key]
       ELSE [out |-> FormatDataForBacktesting(data),
             files |-> [k \in DOMAIN files \cup {key} |->
                           IF k = key THEN ToCsv(data) ELSE files[k]],
             provider_called |-> TRUE, key |-> key]

\* ------------------------------------------ translator.py: translate_to_dsl

\* What the model's JSON answer may hold in the fields the callers read.
DslData ==
    [framework : Frameworks \cup {"zipline"},
     timeframe : AllowedTimeframes
                     \cup {<<"1", "w">>, <<"3", "0", "m">>, <<"2", "h">>, <<"m">>, <<>>},
     indicators : {TestIndicators,
                   <<Indicator("ema(20", "EMA", ("period" :> 20))>>,
                   <<Indicator("k", "KAMA", NoParams)>>},
     signals : {TestSignals}]

\* The functions the system prompt allows in signal expressions (line 71).
PromptFunctions == {"cross", "cross_down"}

\* The hosted model fails, or answers with a text: JSON, JSON inside a
\* ```json fence, a text inside a bare ``` fence, or a text that is no JSON.
TranslateReplies ==
    {[kind |-> "llm_error"], [kind |-> "not_json"], [kind |-> "fenced"]}
        \cup {[kind |-> k, data |-> d] : k \in {"json", "fenced_json"}, d \in DslData}

\* A constructor that validated nothing.
DslUnchecked(data) == Return(data)

\* DSL(**data).
DslConstruct(data) ==
    IF SchemaValid(data) THEN Return(data)
    ELSE Raise("ValidationError", "validation error for DSL", "DSL")

\* The try block of translate_to_dsl. Lines 89-100: the fences "```json" and
\* "```" are cut off, then json.loads; a bare leading "```" stays and is no
\* JSON.
TranslateBody(strategy_text, reply) ==
    LET JsonLoads ==
            IF reply.kind \in {"json", "fenced_json"} THEN Return(reply.data)
            ELSE Raise("JSONDecodeError", "Expecting value", "json.loads")
    IN IF reply.kind = "llm_error"
       THEN Raise("APIConnectionError", "Connection error", "llm.invoke")
       ELSE IF JsonLoads.tag = "raise" THEN JsonLoads
       ELSE DslConstruct(JsonLoads.value)

\* translate_to_dsl: every failure inside the try block is re-raised as
\* Exception("Translation failed: ...").
TranslateToDsl(strategy_text, reply) ==
    LET body == TranslateBody(strategy_text, reply) IN
    IF body.tag = "raise" /\ Catches(body.cls)
    THEN Raise("Exception", <<"Translation failed: ", body.msg>>, body.at)
    ELSE body

\* --------------------------------------------------------------- the state

VARIABLES
    max_attempts,   \* autofix: argument
    dsl,            \* autofix: argument
    csv_path,       \* autofix: argument (the file behind the path)
    code,           \* autofix: local
    attempt_num,    \* autofix: loop variable
    attempts,       \* autofix: local list
    result,         \* autofix: local, the last runner result
    afpc,           \* autofix: position in try_run_with_autofix
    afret,          \* autofix: what the call returned or raised
    runLog,         \* runner invocations made by the current call, in order
    repairLog,      \* repair_dsl invocations made by the current call, in order
    llmLog,         \* requests that reached the hosted model, in order
    rlimits,        \* the process's resource limits
    call,           \* the last direct runner call and its outcome
    now,            \* datetime.now()
    cache,          \* data_cache/: file name -> file content
    cacheWriter,    \* for each cache file, the symbol spelling of the call that wrote it
    fetch,          \* the last direct fetch_data call and its outcome
    request,        \* /backtest: the request being handled
    api,            \* /backtest: the handler's position and locals
    response,       \* /backtest: the response sent
    stageLog        \* /backtest: the pipeline stages the request ran, in order

afVars == <<max_attempts, dsl, csv_path, code, attempt_num, attempts, result,
            afpc, afret>>

fetchVars == <<now, cache, cacheWriter, fetch>>

apiVars == <<request, api, response, stageLog>>

NoLimits == [cpu |-> 0, mem_mb |-> 0]

\* ----------------------------------------------------- bt-tools/autofix.py

SelectRunner(framework) ==
    IF framework = "backtrader" THEN "run_backtrader" ELSE "run_backtestingpy"

\* A record numbered by the loop variable itself.
FailedAttemptFromZero(n, res, c) ==
    [attempt |-> <<n, "">>, error |-> res.error,
     traceback |-> res.traceback, code |-> c]

\* attempts.append({... "attempt": attempt_num + 1 ...})
FailedAttempt(n, res, c) ==
    [attempt |-> <<n + 1, "">>, error |-> res.error,
     traceback |-> res.traceback, code |-> c]

\* attempts.append({... "attempt": f"{attempt_num + 1}_repair_failed" ...})
RepairFailedAttempt(n, exc, c) ==
    [attempt |-> <<n + 1, "_repair_failed">>,
     error |-> <<"Repair failed: ", exc.msg>>, traceback |-> "", code |-> c]

SuccessReturn(res, c, atts) ==
    [success |-> TRUE, code |-> c, metrics |-> res.metrics,
     trades |-> res.trades, equity_curve |-> res.equity_curve,
     final_value |-> res.final_value, attempts |-> atts]

FailureReturn(atts, n) ==
    [success |-> FALSE, attempts |-> atts,
     error |-> <<"Failed after ", n, " attempts">>]

\* The code the loop carries into the next run after a repair that returned.
KeepOldCode(old, repaired) == old
NextCode(old, repaired) == repaired

\* The condition under which a failed run is followed by a repair.
RepairAlways(n, maxn) == TRUE
RepairAllowed(n, maxn) == n < maxn - 1

\* compile_fn(dsl) for each DSL a caller holds, computed once.
CompiledDsl == {<<d, CompileBtp(d)>> : d \in DSLs}

\* Lines 8-11: attempts = []; code = compile_fn(dsl).
AfCompile ==
    /\ afpc = "call"
    /\ LET c == (CHOOSE p \in CompiledDsl : p[1] = dsl)[2] IN
         IF c.tag = "raise"
         THEN /\ afpc' = "raised"
              /\ afret' = c
              /\ UNCHANGED code
         ELSE /\ afpc' = "loop"
              /\ code' = c.value
              /\ UNCHANGED afret
    /\ attempts' = <<>>
    /\ attempt_num' = 0
    /\ UNCHANGED <<max_attempts, dsl, csv_path, result, runLog, repairLog,
                   llmLog, rlimits, call, fetchVars, apiVars>>

\* Lines 13-37: one iteration up to the recording of a failed attempt.
AfRun ==
    /\ afpc = "loop"
    /\ attempt_num < max_attempts
    /\ \E env \in RunnerEnvs :
         LET runner == SelectRunner(dsl.framework)
             out == CallRunner(runner, csv_path, code, DefaultCapital, env)
         IN /\ runLog' = Append(runLog, [runner |-> runner, code |-> code,
                                         ok |-> out.tag = "return" /\ out.value.ok])
            /\ rlimits' = LimitResources(rlimits)
            /\ IF out.tag = "raise"
               THEN /\ afpc' = "raised"
                    /\ afret' = out
                    /\ UNCHANGED <<result, attempts, attempt_num>>
               ELSE IF out.value.ok
               THEN /\ result' = out.value
                    /\ afret' = SuccessReturn(out.value, code, attempts)
                    /\ afpc' = "returned"
                    /\ UNCHANGED <<attempts, attempt_num>>
               ELSE /\ result' = out.value
                    /\ attempts' = Append(attempts,
                                          FailedAttempt(attempt_num, out.value, code))
                    /\ IF RepairAllowed(attempt_num, max_attempts)
                       THEN afpc' = "repair" /\ UNCHANGED attempt_num
                       ELSE afpc' = "loop" /\ attempt_num' = attempt_num + 1
                    /\ UNCHANGED afret
    /\ UNCHANGED <<max_attempts, dsl, csv_path, code, repairLog, llmLog, call,
                   fetchVars, apiVars>>

\* Lines 39-66: the repair call, and the break when it raises.
AfRepair ==
    /\ afpc = "repair"
    /\ \E reply \in LlmReplies :
         LET out == RepairDsl(result.error, result.traceback, code, reply) IN
         /\ repairLog' = Append(repairLog,
                [error |-> result.error, traceback |-> result.traceback,
                 code |-> code, outcome |-> out])
         /\ llmLog' = IF RepairInvokesLlm(code)
                      THEN Append(llmLog, RepairPrompt(result.error,
                                                       result.traceback, code))
                      ELSE llmLog
         /\ IF out.tag = "raise"
            THEN /\ attempts' = Append(attempts,
                                       RepairFailedAttempt(attempt_num, out, code))
                 /\ afpc' = "break"
                 /\ UNCHANGED <<code, attempt_num>>
            ELSE /\ code' = NextCode(code, out.value)
                 /\ attempt_num' = attempt_num + 1
                 /\ afpc' = "loop"
                 /\ UNCHANGED attempts
    /\ UNCHANGED <<max_attempts, dsl, csv_path, result, afret, runLog,
                   rlimits, call, fetchVars, apiVars>>

\* Lines 68-73: the loop is over (exhausted or broken out of).
AfReturnFailure ==
    /\ \/ afpc = "loop" /\ attempt_num >= max_attempts
       \/ afpc = "break"
    /\ afret' = FailureReturn(attempts, max_attempts)
    /\ afpc' = "returned"
    /\ UNCHANGED <<max_attempts, dsl, csv_path, code, attempt_num, attempts,
                   result, runLog, repairLog, llmLog, rlimits, call, fetchVars,
                   apiVars>>

NextAutofix == AfCompile \/ AfRun \/ AfRepair \/ AfReturnFailure

\* ------------------------------------------------ direct calls of a runner

\* A caller names the runner and its arguments.
RunnerEnter ==
    /\ call = None
    /\ \E runner \in {"run_backtrader", "run_backtestingpy"}, csv \in CsvFiles,
          c \in Codes, cap \in {DefaultCapital, 50000} :
         call' = [runner |-> runner, csv |-> csv, code |-> c,
                  initial_capital |-> cap, env |-> None, outcome |-> None]
    /\ UNCHANGED <<afVars, runLog, repairLog, llmLog, rlimits, fetchVars, apiVars>>

\* The runner runs to its end; env is what the environment did meanwhile.
RunnerCall ==
    /\ call # None
    /\ call.outcome = None
    /\ \E env \in RunnerEnvs :
         call' = [call EXCEPT
                     !.env = env,
                     !.outcome = CallRunner(call.runner, call.csv, call.code,
                                            call.initial_capital, env)]
    /\ rlimits' = LimitResources(rlimits)
    /\ UNCHANGED <<afVars, runLog, repairLog, llmLog, fetchVars, apiVars>>

\* The caller has taken the result.
RunnerLeave ==
    /\ call # None
    /\ call.outcome # None
    /\ call' = None
    /\ UNCHANGED <<afVars, runLog, repairLog, llmLog, rlimits, fetchVars, apiVars>>

NextRunner == RunnerEnter \/ RunnerCall \/ RunnerLeave

\* ---------------------------------------------- direct calls of fetch_data

MaxDay == 10

FetchStarts == {Dt(5, 0)}
FetchEnds == {Dt(FirstDay, 0), Dt(FirstDay, 1), Dt(FirstDay + 5, 0)}
FetchTimeframes == {"1d", "1h"}

\* The content of a cache file before a call, or Absent.
FileAt(files, key) == IF key \in DOMAIN files THEN files[key] ELSE Absent

\* The writer recorded for the files of `files`: `who` for the file `key`
\* when the call wrote it.
WriterAfter(writers, before, after, key, who) ==
    [k \in DOMAIN after |->
        IF k = key /\ FileAt(before, key) # after[key] THEN who
        ELSE IF k \in DOMAIN writers THEN writers[k] ELSE who]

\* A caller names the arguments of fetch_data.
FetchEnter ==
    /\ fetch = None
    /\ \E symbol \in FetchSymbols, start_date \in FetchStarts,
          end_date \in FetchEnds, timeframe \in FetchTimeframes :
         fetch' = [symbol |-> symbol, start_date |-> start_date,
                   end_date |-> end_date, timeframe |-> timeframe,
                   outcome |-> None]
    /\ UNCHANGED <<afVars, runLog, repairLog, llmLog, rlimits, call, now, cache,
                   cacheWriter, apiVars>>

\* fetch_data runs to its end; prov is what the data provider would answer.
FetchCall ==
    /\ fetch # None
    /\ fetch.outcome = None
    /\ \E prov \in ProviderOutcomes :
         LET r == FetchData(fetch.symbol, fetch.start_date, fetch.end_date,
                            fetch.timeframe, now, cache, prov)
         IN /\ fetch' = [fetch EXCEPT !.outcome =
                           [out |-> r.out, key |-> r.key,
                            provider_called |-> r.provider_called,
                            file_before |-> FileAt(cache, r.key),
                            writer_before |-> FileAt(cacheWriter, r.key),
                            files_changed |-> r.files # cache]]
            /\ cache' = r.files
            /\ cacheWriter' = WriterAfter(cacheWriter, cache, r.files, r.key,
                                          fetch.symbol)
    /\ UNCHANGED <<afVars, runLog, repairLog, llmLog, rlimits, call, now, apiVars>>

\* The caller has taken the result.
FetchLeave ==
    /\ fetch # None
    /\ fetch.outcome # None
    /\ fetch' = None
    /\ UNCHANGED <<afVars, runLog, repairLog, llmLog, rlimits, call, now, cache,
                   cacheWriter, apiVars>>

\* Somebody deletes a file of the cache directory.
CacheFileRemoved ==
    /\ fetch = None
    /\ \E key \in DOMAIN cache :
         /\ cache' = [k \in DOMAIN cache \ {key} |-> cache[k]]
         /\ cacheWriter' = [k \in DOMAIN cache \ {key} |-> cacheWriter[k]]
    /\ UNCHANGED <<afVars, runLog, repairLog, llmLog, rlimits, call, now, fetch,
                   apiVars>>

\* A day passes.
Tick ==
    /\ now.day < MaxDay
    /\ now' = Dt(now.day + 1, now.tod)
    /\ UNCHANGED <<afVars, runLog, repairLog, llmLog, rlimits, call, cache,
                   cacheWriter, fetch, apiVars>>

NextFetch == FetchEnter \/ FetchCall \/ FetchLeave \/ CacheFileRemoved \/ Tick

\* --------------------------------------------- direct calls of compile_btp

\* The longest list of indicators of a compiled DSL.
MaxIndicators == 2

\* The DSLs handed to compile_btp. Their indicators cover every fn of the
\* schema, with ids that are and are not names the compiler knows.
CompilerDsls ==
    LET IndicatorSamples ==
            {Indicator("ema_fast", "EMA", ("period" :> 20)),
             Indicator("ema_slow", "EMA", ("period" :> 50)),
             Indicator("sma1", "SMA", NoParams),
             Indicator("w", "WMA", ("period" :> 30)),
             Indicator("rsi", "RSI", NoParams),
             Indicator("rsi_fast", "RSI", ("period" :> 2)),
             Indicator("macd", "MACD", NoParams),
             Indicator("m", "MACD", ("fast" :> 5)),
             Indicator("atr", "ATR", NoParams),
             Indicator("bb1", "BBANDS", ("period" :> 10 @@ "std" :> 3)),
             Indicator("bb_upper", "BBANDS", ("period" :> 10 @@ "std" :> 3)),
             Indicator("bb2", "BBANDS", ("std" :> 0 @@ "deviation" :> 4)),
             Indicator("st", "STOCH", NoParams),
             Indicator("adx", "ADX", NoParams),
             Indicator("vw", "VWAP", NoParams),
             Indicator("ema(20", "EMA", ("period" :> 20))}
        IndicatorLists ==
            UNION {[1..n -> IndicatorSamples] : n \in 0..MaxIndicators}
        SignalSamples ==
            {Signals(None, None, None, None),
             TestSignals,
             Signals(<<"close", ">", "ema_fast", "&&", "rsi", "<", "30">>,
                     <<"close", "<", "bb_mid", "||", "volume_high", "(", ")">>,
                     TestSignals.exit_long, TestSignals.entry_long),
             Signals(<<"macd", ">", "macd_signal">>,
                     <<"close", "[", "1", "]", ">", "w">>, None, <<>>)}
    IN [framework : Frameworks, timeframe : {<<"1", "h">>},
        indicators : IndicatorLists, signals : SignalSamples]

\* A caller names the DSL.
CompileEnter ==
    /\ call = None
    /\ \E d \in CompilerDsls :
         call' = [fn |-> "compile_btp", dsl |-> d, outcome |-> None]
    /\ UNCHANGED <<afVars, runLog, repairLog, llmLog, rlimits, fetchVars, apiVars>>

\* compile_btp runs to its end.
CompileCall ==
    /\ call # None
    /\ call.outcome = None
    /\ call' = [call EXCEPT !.outcome = CompileBtp(call.dsl)]
    /\ UNCHANGED <<afVars, runLog, repairLog, llmLog, rlimits, fetchVars, apiVars>>

\* The caller has taken the result.
CompileLeave ==
    /\ call # None
    /\ call.outcome # None
    /\ call' = None
    /\ UNCHANGED <<afVars, runLog, repairLog, llmLog, rlimits, fetchVars, apiVars>>

NextCompile == CompileEnter \/ CompileCall \/ CompileLeave

\* ---------------------------------------- direct calls of translate_to_dsl

\* A caller asks for a translation; reply is what the hosted model will do.
TranslateEnter ==
    /\ call = None
    /\ \E reply \in TranslateReplies :
         call' = [fn |-> "translate_to_dsl", strategy_text |-> "ema cross",
                  reply |-> reply, outcome |-> None]
    /\ UNCHANGED <<afVars, runLog, repairLog, llmLog, rlimits, fetchVars, apiVars>>

\* translate_to_dsl runs to its end.
TranslateCall ==
    /\ call # None
    /\ call.outcome = None
    /\ call' = [call EXCEPT !.outcome = TranslateToDsl(call.strategy_text, call.reply)]
    /\ UNCHANGED <<afVars, runLog, repairLog, llmLog, rlimits, fetchVars, apiVars>>

\* The caller has taken the result.
TranslateLeave ==
    /\ call # None
    /\ call.outcome # None
    /\ call' = None
    /\ UNCHANGED <<afVars, runLog, repairLog, llmLog, rlimits, fetchVars, apiVars>>

NextTranslate == TranslateEnter \/ TranslateCall \/ TranslateLeave

\* ------------------------- direct calls of _normalize_symbol_for_yfinance

\* The symbols handed to the normalizer: base, separator and quote put
\* together, and spellings of other shapes.
NormalizeSymbols ==
    LET bases == {<<"b", "t", "c">>, <<"E", "U", "R">>, <<"x", "y", "z">>,
                  <<"d", "o", "g", "e">>}
        seps == {<<>>, <<"/">>, <<"_">>, <<"-">>, <<" ">>}
        quotes == {<<"u", "s", "d">>, <<"E", "T", "H">>, <<"u", "s", "d", "t">>,
                   <<"x">>}
    IN {b \o sep \o q : b \in bases, sep \in seps, q \in quotes}
       \cup {<<>>, <<" ">>,
             <<"^", "G", "S", "P", "C">>,
             <<" ", "^", "g", "s", "p", "c">>,
             <<"^", "G", "S", "P", "C", " ">>,
             <<"E", "U", "R", "U", "S", "D", "=", "X">>,
             <<"e", "u", "r", "u", "s", "d", "=", "x">>,
             <<" ", "E", "U", "R", "U", "S", "D", "=", "X">>,
             <<"b", "t", "-", "c", "u", "-", "s", "d">>,
             <<"e", "u", "r", "-", "u", "s", "-", "d">>,
             <<"-", "a", "b", "c">>,
             <<"a", "/", "b", "_", "c">>,
             <<"A", "A", "P", "L">>,
             <<"b", "r", "k", "-", "b">>,
             <<"/", "b", "t", "c", "_", "u", "s", "d">>}

\* A caller names the symbol.
NormalizeEnter ==
    /\ call = None
    /\ \E symbol \in NormalizeSymbols :
         call' = [fn |-> "_normalize_symbol_for_yfinance", symbol |-> symbol,
                  outcome |-> None]
    /\ UNCHANGED <<afVars, runLog, repairLog, llmLog, rlimits, fetchVars, apiVars>>

\* The normalizer returns.
NormalizeCall ==
    /\ call # None
    /\ call.outcome = None
    /\ call' = [call EXCEPT !.outcome = Return(NormalizeSymbolForYfinance(call.symbol))]
    /\ UNCHANGED <<afVars, runLog, repairLog, llmLog, rlimits, fetchVars, apiVars>>

\* The caller has taken the result.
NormalizeLeave ==
    /\ call # None
    /\ call.outcome # None
    /\ call' = None
    /\ UNCHANGED <<afVars, runLog, repairLog, llmLog, rlimits, fetchVars, apiVars>>

NextNormalize == NormalizeEnter \/ NormalizeCall \/ NormalizeLeave

\* ------------------------------------------- main.py: analyze_performance

\* A scorer that adds the raw figures.
AnalyzeUnscaled(metrics) ==
    [overall_score |-> Get(metrics, "returns", 0) + Get(metrics, "trades", 0),
     strengths |-> <<>>, weaknesses |-> <<>>, risk_level |-> "medium",
     recommendations |-> <<>>]

\* analyze_performance. metrics maps the keys it holds to the number the
\* chain of .get() calls reads under them; "sharpe" is held in tenths, so the
\* thresholds 1.0, 0.5 and -1 are 10, 5 and -10.
AnalyzePerformance(metrics) ==
    LET sharpe == Get(metrics, "sharpe", 0)
        drawdown == Get(metrics, "drawdown", 0)
        returns == Get(metrics, "returns", 0)
        total_trades == Get(metrics, "trades", 0)
        Part(points, strength, weakness) ==
            [points |-> points, strengths |-> strength, weaknesses |-> weakness]
        sharpe_part ==
            IF sharpe > 10 THEN Part(25, <<"sharpe > 1.0">>, <<>>)
            ELSE IF sharpe > 5 THEN Part(20, <<"sharpe > 0.5">>, <<>>)
            ELSE IF sharpe > 0 THEN Part(10, <<"sharpe > 0">>, <<>>)
            ELSE Part(0, <<>>, <<"poor sharpe">>)
        drawdown_part ==
            IF drawdown < 10 THEN Part(25, <<"dd < 10">>, <<>>)
            ELSE IF drawdown < 20 THEN Part(20, <<"dd < 20">>, <<>>)
            ELSE IF drawdown < 30 THEN Part(15, <<"dd < 30">>, <<>>)
            ELSE Part(5, <<>>, <<"high dd">>)
        returns_part ==
            IF returns > 20 THEN Part(25, <<"returns > 20">>, <<>>)
            ELSE IF returns > 10 THEN Part(20, <<"returns > 10">>, <<>>)
            ELSE IF returns > 5 THEN Part(15, <<"returns > 5">>, <<>>)
            ELSE IF returns > 0 THEN Part(10, <<"returns > 0">>, <<>>)
            ELSE Part(0, <<>>, <<"negative returns">>)
        trades_part ==
            IF total_trades > 20 THEN Part(25, <<"trades > 20">>, <<>>)
            ELSE IF total_trades > 10 THEN Part(20, <<"trades > 10">>, <<>>)
            ELSE IF total_trades > 5 THEN Part(15, <<"trades > 5">>, <<>>)
            ELSE Part(10, <<>>, <<"low activity">>)
        parts == <<sharpe_part, drawdown_part, returns_part, trades_part>>
    IN [overall_score |-> parts[1].points + parts[2].points + parts[3].points
                          + parts[4].points,
        strengths |-> parts[1].strengths \o parts[2].strengths
                      \o parts[3].strengths \o parts[4].strengths,
        weaknesses |-> parts[1].weaknesses \o parts[2].weaknesses
                       \o parts[3].weaknesses \o parts[4].weaknesses,
        risk_level |-> IF drawdown > 40 \/ sharpe < -10 THEN "high"
                       ELSE IF drawdown > 20 \/ sharpe < 0 THEN "medium"
                       ELSE "low",
        recommendations |->
            (IF sharpe < 0 THEN <<"risk-adjusted returns">> ELSE <<>>)
            \o (IF drawdown > 30 THEN <<"drawdown">> ELSE <<>>)
            \o (IF returns < 5 THEN <<"signals">> ELSE <<>>)
            \o (IF total_trades < 5 THEN <<"frequency">> ELSE <<>>)]

\* Direct calls of analyze_performance: a caller names the metrics, the
\* function returns, the caller takes the result. The figures stand on both
\* sides of every threshold, and any of the four keys may be missing.
NextAnalyze ==
    \/ /\ call = None
       /\ \E keys \in SUBSET {"sharpe", "drawdown", "returns", "trades"} :
          \E sharpe \in {-20, -10, 0, 3, 5, 6, 10, 11, 30} :
          \E drawdown \in {-5, 0, 9, 10, 19, 20, 29, 30, 41, 100} :
          \E returns \in {-50, 0, 1, 5, 6, 10, 11, 20, 21, 500} :
          \E trades \in {0, 4, 5, 6, 10, 11, 20, 21, 1000} :
             call' = [fn |-> "analyze_performance",
                      metrics |-> [k \in keys |->
                                      CASE k = "sharpe" -> sharpe
                                        [] k = "drawdown" -> drawdown
                                        [] k = "returns" -> returns
                                        [] OTHER -> trades],
                      outcome |-> None]
       /\ UNCHANGED <<afVars, runLog, repairLog, llmLog, rlimits, fetchVars, apiVars>>
    \/ /\ call # None
       /\ call.outcome = None
       /\ call' = [call EXCEPT !.outcome = Return(AnalyzePerformance(call.metrics))]
       /\ UNCHANGED <<afVars, runLog, repairLog, llmLog, rlimits, fetchVars, apiVars>>
    \/ /\ call # None
       /\ call.outcome # None
       /\ call' = None
       /\ UNCHANGED <<afVars, runLog, repairLog, llmLog, rlimits, fetchVars, apiVars>>

\* ------------------------------------------------------ main.py: /backtest

\* A date string of a request: its format, and the moment it names.
DateString(f, d, t) == [fmt |-> f, day |-> d, tod |-> t]

\* The three strptime attempts of the handler.
ParseDate(ds) ==
    IF ds.fmt = "%Y-%m-%d" THEN Return(Dt(ds.day, 0))
    ELSE IF ds.fmt = "%Y-%m-%dT%H:%M:%SZ" THEN Return(Dt(ds.day, ds.tod))
    ELSE IF ds.fmt = "%Y-%m-%dT%H:%M:%S" THEN Return(Dt(ds.day, ds.tod))
    ELSE Raise("ValueError", "time data does not match format", "strptime")

\* timedelta(days=1).
MinusDay(a) == Dt(a.day - 1, a.tod)

HttpException(status, detail, at) ==
    [tag |-> "raise", cls |-> "HTTPException", status |-> status,
     msg |-> detail, at |-> at]

\* Lines 338-368: the dates of the request, parsed, defaulted and validated.
RequestDates(req, clock) ==
    LET e == IF req.end_date = None THEN Return(MinusDay(clock))
             ELSE ParseDate(req.end_date)
        s == IF e.tag = "raise" THEN e
             ELSE IF req.start_date = None THEN Return(MinusYear(e.value))
             ELSE ParseDate(req.start_date)
    IN IF e.tag = "raise" THEN e
       ELSE IF s.tag = "raise" THEN s
       ELSE IF ~DtAfter(e.value, s.value)
       THEN HttpException(400, "Start date must be before end date", "dates")
       ELSE IF DtAfter(e.value, clock)
       THEN HttpException(400, "End date cannot be in the future", "dates")
       ELSE Return([start_date |-> s.value, end_date |-> e.value])

\* A handler with the `except HTTPException: raise` clause left out.
OuterHandlerWrapsAll(exc) ==
    [status |-> 500, detail |-> <<"Internal server error: ", exc.msg>>]

\* Lines 425-429: an HTTPException passes; anything else becomes a 500.
OuterHandler(exc) ==
    IF exc.cls = "HTTPException"
    THEN [status |-> exc.status, detail |-> exc.msg]
    ELSE [status |-> 500, detail |-> <<"Internal server error: ", exc.msg>>]

\* Lines 421-423: the handler around the run; it wraps every Exception,
\* the HTTPException of line 419 included.
InnerHandler(exc) ==
    HttpException(500, <<"Backtest execution failed: ", exc.msg>>, "run")

\* The temporary file temp_{symbol}_{time}.csv can be created only when the
\* raw symbol has no '/'.
TempPathWritable(symbol) == ~Contains(symbol, "/")

\* The pipeline, in order.
Stages == <<"dates", "fetch", "translate", "compile", "run">>

StageAfter(stage) ==
    CASE stage = "dates" -> "fetch" [] stage = "fetch" -> "translate"
      [] stage = "translate" -> "compile" [] stage = "compile" -> "run"
      [] OTHER -> "done"

\* An exception ends the request; a stage that returned hands over to the next.
NextStageRegardless(stage, ok) == StageAfter(stage)
NextStage(stage, ok) == IF ok THEN StageAfter(stage) ELSE "done"

ApiSymbols == FetchSymbols

\* Requests with the default dates, and requests that give both dates.
Requests ==
    [strategy : {"ema cross"},
     symbol : ApiSymbols,
     timeframe : {"1d"},
     start_date : {None},
     end_date : {None},
     initial_capital : {50000}]
    \cup
    [strategy : {"ema cross"},
     symbol : ApiSymbols,
     timeframe : {"1d"},
     start_date : {DateString("%Y-%m-%d", 5, 0), DateString("bad", 0, 0)},
     end_date : {DateString("%Y-%m-%d", FirstDay, 0),
                 DateString("%Y-%m-%dT%H:%M:%SZ", FirstDay + 5, 0),
                 DateString("%Y-%m-%d", 5, 0),
                 DateString("%Y-%m-%d", 4, 0)},
     initial_capital : {50000}]

\* The runner environments a request is checked against.
ApiRunnerEnvs ==
    {e \in RunnerEnvs : e.pv_end = 95000 /\ e.n_trades = 1
                        /\ e.raise_at \in {0, 3}}

\* A request arrives.
ApiReceive ==
    /\ IF api = None THEN TRUE ELSE api.pc = "done"
    /\ request' \in Requests
    /\ api' = [pc |-> "dates", start_date |-> None, end_date |-> None,
               data |-> None, dsl |-> None, code |-> None, result |-> None,
               failed_at |-> "none"]
    /\ response' = None
    /\ stageLog' = <<>>
    /\ runLog' = <<>>
    /\ repairLog' = <<>>
    /\ llmLog' = <<>>
    /\ UNCHANGED <<afVars, rlimits, call, fetchVars>>

\* Lines 338-368.
ApiDates ==
    /\ api # None
    /\ api.pc = "dates"
    /\ LET d == RequestDates(request, now) IN
         /\ stageLog' = Append(stageLog, "dates")
         /\ IF d.tag = "raise"
            THEN /\ api' = [api EXCEPT !.pc = NextStage("dates", FALSE),
                                       !.failed_at = "dates"]
                 /\ response' = OuterHandler(d)
            ELSE /\ api' = [api EXCEPT !.pc = NextStage("dates", TRUE),
                                       !.start_date = d.value.start_date,
                                       !.end_date = d.value.end_date]
                 /\ UNCHANGED response
    /\ UNCHANGED <<afVars, runLog, repairLog, llmLog, rlimits, call, fetchVars,
                   request>>

\* Lines 370-382.
ApiFetch ==
    /\ api # None
    /\ api.pc = "fetch"
    /\ \E prov \in ProviderOutcomes :
         LET r == FetchData(request.symbol, api.start_date, api.end_date,
                            request.timeframe, now, cache, prov)
         IN /\ stageLog' = Append(stageLog, "fetch")
            /\ cache' = r.files
            /\ cacheWriter' = WriterAfter(cacheWriter, cache, r.files, r.key,
                                          request.symbol)
            /\ IF r.out.tag = "raise"
               THEN /\ api' = [api EXCEPT !.pc = NextStage("fetch", FALSE),
                                          !.failed_at = "fetch"]
                    /\ response' = OuterHandler(r.out)
               ELSE IF r.out.value = None \/ r.out.value.rows = 0
               THEN /\ api' = [api EXCEPT !.pc = NextStage("fetch", FALSE),
                                          !.failed_at = "fetch"]
                    /\ response' = OuterHandler(
                           HttpException(400, "No data available", "fetch"))
               ELSE /\ api' = [api EXCEPT !.pc = NextStage("fetch", TRUE),
                                          !.data = r.out.value]
                    /\ UNCHANGED response
    /\ UNCHANGED <<afVars, runLog, repairLog, llmLog, rlimits, call, now, fetch,
                   request>>

\* Lines 384-386.
ApiTranslate ==
    /\ api # None
    /\ api.pc = "translate"
    /\ \E reply \in {r \in TranslateReplies :
                        /\ r.kind \in {"llm_error", "not_json", "json"}
                        /\ r.kind = "json"
                              => r.data.timeframe \in {<<"1", "h">>, <<"1", "w">>}} :
         LET t == TranslateToDsl(request.strategy, reply) IN
         /\ stageLog' = Append(stageLog, "translate")
         /\ llmLog' = Append(llmLog, [translate |-> request.strategy])
         /\ IF t.tag = "raise"
            THEN /\ api' = [api EXCEPT !.pc = NextStage("translate", FALSE),
                                       !.failed_at = "translate"]
                 /\ response' = OuterHandler(t)
            ELSE /\ api' = [api EXCEPT !.pc = NextStage("translate", TRUE),
                                       !.dsl = t.value]
                 /\ UNCHANGED response
    /\ UNCHANGED <<afVars, runLog, repairLog, rlimits, call, fetchVars, request>>

\* Lines 388-390.
ApiCompile ==
    /\ api # None
    /\ api.pc = "compile"
    /\ LET c == CompileBtp(api.dsl) IN
         /\ stageLog' = Append(stageLog, "compile")
         /\ IF c.tag = "raise"
            THEN /\ api' = [api EXCEPT !.pc = NextStage("compile", FALSE),
                                       !.failed_at = "compile"]
                 /\ response' = OuterHandler(c)
            ELSE /\ api' = [api EXCEPT !.pc = NextStage("compile", TRUE),
                                       !.code = c.value]
                 /\ UNCHANGED response
    /\ UNCHANGED <<afVars, runLog, repairLog, llmLog, rlimits, call, fetchVars,
                   request>>

\* Lines 392-423: the temporary CSV, one call of run_backtrader, the answer.
ApiRun ==
    /\ api # None
    /\ api.pc = "run"
    /\ stageLog' = Append(stageLog, "run")
    /\ IF ~TempPathWritable(request.symbol)
       THEN /\ api' = [api EXCEPT !.pc = NextStage("run", FALSE),
                                  !.failed_at = "run"]
            /\ response' = OuterHandler(InnerHandler(
                   Raise("OSError", "Cannot save file into a non-existent directory",
                         "to_csv")))
            /\ UNCHANGED <<runLog, rlimits>>
       ELSE \E env \in ApiRunnerEnvs :
            LET temp_csv == Csv(TRUE, TRUE, "lower", ToCsv(api.data).rows)
                out == RunBacktrader(temp_csv, api.code, request.initial_capital, env)
            IN /\ runLog' = Append(runLog, [runner |-> "run_backtrader",
                                            code |-> api.code,
                                            ok |-> out.tag = "return" /\ out.value.ok])
               /\ rlimits' = LimitResources(rlimits)
               /\ IF out.tag = "raise"
                  THEN /\ api' = [api EXCEPT !.pc = NextStage("run", FALSE),
                                             !.failed_at = "run"]
                       /\ response' = OuterHandler(InnerHandler(out))
                  ELSE IF out.value.ok
                  THEN /\ api' = [api EXCEPT !.pc = NextStage("run", TRUE),
                                             !.result = out.value]
                       /\ response' = [status |-> 200, success |-> TRUE,
                                       metrics |-> out.value.metrics,
                                       trades |-> out.value.trades,
                                       data_points |-> api.data.rows]
                  ELSE /\ api' = [api EXCEPT !.pc = NextStage("run", FALSE),
                                             !.result = out.value,
                                             !.failed_at = "run"]
                       /\ response' = OuterHandler(InnerHandler(
                              HttpException(500, <<"Backtest failed: ",
                                                   out.value.error>>, "run")))
    /\ UNCHANGED <<afVars, repairLog, llmLog, call, fetchVars, request>>

NextApi ==
    ApiReceive \/ ApiDates \/ ApiFetch \/ ApiTranslate \/ ApiCompile \/ ApiRun

\* ------------------------------------------------------------ specifications

vars == <<max_attempts, dsl, csv_path, code, attempt_num, attempts, result,
          afpc, afret, runLog, repairLog, llmLog, rlimits, call, now, cache,
          cacheWriter, fetch, request, api, response, stageLog>>

EmptyFiles == [k \in {} |-> Absent]

FetchIdle ==
    /\ now = Dt(FirstDay, 1)
    /\ cache = EmptyFiles
    /\ cacheWriter = EmptyFiles
    /\ fetch = None

ApiIdle ==
    /\ request = None
    /\ api = None
    /\ response = None
    /\ stageLog = <<>>

AfIdle ==
    /\ max_attempts = 0
    /\ dsl = None
    /\ csv_path = None
    /\ code = None
    /\ attempt_num = 0
    /\ attempts = <<>>
    /\ result = None
    /\ afpc = "idle"
    /\ afret = None

\* One call of try_run_with_autofix(dsl, compile_btp, csv_path, llm, max_attempts).
InitAutofix ==
    /\ max_attempts \in 0..MaxAttempts
    /\ dsl \in DSLs
    /\ csv_path \in {Csv(FALSE, FALSE, "none", 0), Csv(TRUE, TRUE, "lower", 10),
                     Csv(TRUE, TRUE, "lower", 100)}
    /\ code = None
    /\ attempt_num = 0
    /\ attempts = <<>>
    /\ result = None
    /\ afpc = "call"
    /\ afret = None
    /\ runLog = <<>>
    /\ repairLog = <<>>
    /\ llmLog = <<>>
    /\ rlimits = NoLimits
    /\ call = None
    /\ FetchIdle
    /\ ApiIdle

SpecAutofix == InitAutofix /\ [][NextAutofix]_vars

\* The interpreter runs the call to its end: no step of it waits on anything.
SpecAutofixFair == SpecAutofix /\ WF_vars(NextAutofix)

InitRunner ==
    /\ AfIdle
    /\ runLog = <<>>
    /\ repairLog = <<>>
    /\ llmLog = <<>>
    /\ rlimits = NoLimits
    /\ call = None
    /\ FetchIdle
    /\ ApiIdle

SpecRunner == InitRunner /\ [][NextRunner]_vars

SpecFetch == InitRunner /\ [][NextFetch]_vars

\* The server: /backtest requests handled one after the other.
SpecApi == InitRunner /\ [][NextApi]_vars

\* Calls of compile_btp.
SpecCompile == InitRunner /\ [][NextCompile]_vars

\* Calls of translate_to_dsl.
SpecTranslate == InitRunner /\ [][NextTranslate]_vars

\* Calls of _normalize_symbol_for_yfinance.
SpecNormalize == InitRunner /\ [][NextNormalize]_vars

\* Calls of analyze_performance.
SpecAnalyze == InitRunner /\ [][NextAnalyze]_vars

\* ------------------------------------------------------------------ claims

\* The records of failed runs in attempts (a repair failure adds one more).
FailedRuns == SelectSeq(attempts, LAMBDA a : a.attempt[2] = "")

\* C1: one call of try_run_with_autofix invokes the runner at most
\* max_attempts times and repair_dsl at most max(max_attempts - 1, 0) times,
\* and a repair is pending only while another run is still permitted.
C1_RunAndRepairBounds ==
    /\ Len(runLog) <= max_attempts
    /\ Len(repairLog) <= Max(max_attempts - 1, 0)
    /\ Len(repairLog) <= Len(runLog)
    /\ afpc = "repair" => Len(runLog) < max_attempts

C1_Witness ==
    /\ afpc = "returned"
    /\ max_attempts = MaxAttempts
    /\ Len(runLog) = max_attempts
    /\ Len(repairLog) = max_attempts - 1

C6_MetricsShape ==
    (/\ call # None
     /\ call.outcome # None
     /\ call.runner = "run_backtrader"
     /\ call.outcome.tag = "return"
     /\ call.outcome.value.ok) =>
        /\ DOMAIN call.outcome.value.metrics =
              {"sharpe", "drawdown", "returns", "trades", "sqn", "summary"}
        /\ DOMAIN call.outcome.value.metrics.summary = SummaryFields
        /\ Cardinality(SummaryFields) = 15
        /\ call.outcome.value.metrics.summary.pv_start = call.initial_capital

C6_Witness ==
    /\ call # None
    /\ call.outcome # None
    /\ call.runner = "run_backtrader"
    /\ call.env.raise_at = 3
    /\ call.initial_capital = 50000
    /\ call.outcome.tag = "return"
    /\ call.outcome.value.ok
    /\ call.outcome.value.metrics.summary.pv_start = 50000

\* C7: the first run of try_run_with_autofix, which executes the output of
\* compile_btp, uses the runner of the framework that output is written for.
C7_RunnerMatchesCompiledCode ==
    Len(runLog) >= 1 =>
        RunnerFramework(runLog[1].runner) = CodeTarget(runLog[1].code)

\* C10: run_backtestingpy, given a CSV with at least 100 complete OHLC rows
\* and a valid backtesting.py GeneratedStrategy class that the engine runs
\* without error, returns ok = True with final_value, metrics and trades.
C10_BacktestingpySucceeds ==
    (/\ call # None
     /\ call.outcome # None
     /\ call.runner = "run_backtestingpy"
     /\ call.csv.exists /\ call.csv.parses
     /\ call.csv.cols = "Upper" /\ call.csv.rows >= MinRows
     /\ call.code = BtpStrategyCode
     /\ ~call.env.engine_raises) =>
        /\ call.outcome.tag = "return"
        /\ call.outcome.value.ok
        /\ {"final_value", "metrics", "trades"} \subseteq DOMAIN call.outcome.value


\* C8: disk cache hit. When fetch_data is called and the cache holds a
\* non-empty file under the normalized symbol and the two date strings of the
\* call, the call returns the series of that file, does not call the data
\* provider and leaves the cache as it is; the spelling of the symbol the
\* file was written for plays no part. Files get into the cache only by a
\* call that succeeded.
C8_CacheHit ==
    [][(fetch # None /\ fetch.outcome = None /\ fetch' # None
        /\ fetch'.outcome # None)
       => LET o == fetch'.outcome
              nk == <<NormalizedSymbol[fetch.symbol], o.key[2], o.key[3]>>
          IN (nk \in DOMAIN cache /\ cache[nk].rows > 0)
             => /\ ~o.provider_called
                /\ o.out = FormatDataForBacktesting(ReadCsv(cache[nk]))
                /\ o.out.tag = "return"
                /\ o.out.value.ticker = NormalizedSymbol[fetch.symbol]
                /\ cache' = cache]_vars

\* A hit on a file that was written for the other spelling of the symbol.
C8_Witness ==
    /\ fetch # None
    /\ fetch.outcome # None
    /\ fetch.outcome.file_before # Absent
    /\ fetch.outcome.writer_before # fetch.symbol
    /\ NormalizedSymbol[fetch.outcome.writer_before] = NormalizedSymbol[fetch.symbol]
    /\ ~fetch.outcome.provider_called
    /\ fetch.outcome.out.tag = "return"

\* C4 (the code does not do this): a /backtest request whose run failed is
\* answered with an error only after the failing code went to the language
\* model for repair.
C4_RepairBeforeError ==
    (api # None /\ api.pc = "done" /\ api.failed_at = "run" /\ Len(runLog) >= 1)
        => Len(repairLog) >= 1

IsPrefix(s, t) ==
    Len(s) <= Len(t) /\ \A i \in 1..Len(s) : s[i] = t[i]

\* C9: the /backtest pipeline is linear and fail-stop. The stages that ran
\* are an initial part of dates, fetch, translate, compile, run, each once;
\* the runner is called at most once and only when all five were reached with
\* data, DSL and code in hand; the language model is called at most once and
\* only in the translate stage; a stage that failed is the last one that ran,
\* the request is then over with a 400 or 500 answer, and a failure before
\* translate leaves the language model uncalled, a failure before run leaves
\* the generated code unexecuted.
C9_LinearFailStop ==
    api # None =>
      /\ IsPrefix(stageLog, Stages)
      /\ Len(runLog) <= 1
      /\ Len(runLog) = 1 =>
            /\ stageLog = Stages
            /\ api.data # None /\ api.dsl # None /\ api.code # None
            /\ runLog[1].code = api.code
      /\ Len(llmLog) <= 1
      /\ Len(llmLog) = 1 => Len(stageLog) >= 3
      /\ repairLog = <<>>
      /\ api.failed_at # "none" =>
            /\ api.pc = "done"
            /\ stageLog # <<>>
            /\ stageLog[Len(stageLog)] = api.failed_at
            /\ response # None
            /\ response.status \in {400, 500}
            /\ api.failed_at \in {"dates", "fetch"} => llmLog = <<>>
            /\ api.failed_at \in {"dates", "fetch", "translate", "compile"}
                  => runLog = <<>>

\* The compiler rejects the DSL: the language model was called once, the
\* runner not at all.
C9_Witness ==
    /\ api # None
    /\ api.pc = "done"
    /\ api.failed_at = "compile"
    /\ stageLog = <<"dates", "fetch", "translate", "compile">>
    /\ Len(llmLog) = 1
    /\ runLog = <<>>
    /\ response.status = 500


\* C11 (the code does not do this): for every valid DSL instance compile_btp
\* returns code that defines a class named GeneratedStrategy whose next
\* method holds a buy call, and the runner's class lookup does not reject it.
C11_CompilerOutputHasClass ==
    (call # None /\ call.outcome # None /\ SchemaValid(call.dsl))
        => /\ call.outcome.tag = "return"
           /\ call.outcome.value.class_name = "GeneratedStrategy"
           /\ "next" \in call.outcome.value.methods
           /\ "self.buy" \in call.outcome.value.next.calls
           /\ ExecStrategy(call.outcome.value).tag = "return"


\* C12 (the code does not do this): a DSL is constructed only with one of the
\* timeframes "1m", "5m", "15m", "1h", "4h", "1d"; any other timeframe fails
\* validation.
C12_TimeframeAllowedOnly ==
    (call # None /\ call.outcome # None /\ call.reply.kind \in {"json", "fenced_json"})
        => (call.outcome.tag = "return"
               => call.outcome.value.timeframe \in AllowedTimeframes)

\* C13: translate_to_dsl returns only what passed the schema. When the model
\* call fails, the answer is no JSON, or the data has a framework, an
\* indicator function or a timeframe the schema rejects, the call raises
\* Exception with a message that starts with "Translation failed: " and
\* returns no DSL; otherwise it returns the DSL made of the answer's data.
C13_TranslateValidatedOrRaises ==
    (call # None /\ call.outcome # None) =>
        LET r == call.reply
            o == call.outcome
            parsed == r.kind \in {"json", "fenced_json"}
            conforms ==
                /\ r.data.framework \in {"backtrader", "backtestingpy"}
                /\ \A i \in 1..Len(r.data.indicators) :
                      r.data.indicators[i].fn \in IndicatorFns
                /\ Len(r.data.timeframe) > 0
                /\ r.data.timeframe[Len(r.data.timeframe)] \in {"m", "h", "d"}
        IN IF parsed /\ conforms
           THEN o = Return(r.data)
           ELSE /\ o.tag = "raise"
                /\ o.cls = "Exception"
                /\ o.msg[1] = "Translation failed: "

\* The data names a framework the schema does not know, and the call raised.
C13_Witness ==
    /\ call # None
    /\ call.outcome # None
    /\ call.reply.kind = "json"
    /\ call.reply.data.framework = "zipline"
    /\ ValidTf(call.reply.data.timeframe)
    /\ call.outcome.tag = "raise"
    /\ call.outcome.msg[1] = "Translation failed: "


\* C14 (the code does not do this): when try_run_with_autofix returns the
\* failure result "Failed after {max_attempts} attempts", the runner has
\* been run exactly max_attempts times, a repair call that raised being
\* followed by the next run.
C14_FailureAfterAllRuns ==
    (afpc = "returned" /\ ~afret.success) =>
        /\ afret.error = <<"Failed after ", max_attempts, " attempts">>
        /\ Len(runLog) = max_attempts
        /\ \A k \in 1..Len(repairLog) :
              repairLog[k].outcome.tag = "raise" => Len(runLog) > k

\* C15: try_run_with_autofix returns success = True exactly when some run
\* returned ok. A run that returned ok is the last run, the call returns
\* right after it and no repair follows it; the code returned is the code of
\* that run, and the attempts returned are the records of the failed runs
\* before it, numbered 1..k in order, each with the code that was run.
C15_SuccessIsFirstOkRun ==
    /\ \A i \in 1..Len(runLog) :
          runLog[i].ok => /\ i = Len(runLog)
                          /\ afpc = "returned"
                          /\ Len(repairLog) = i - 1
    /\ afpc = "returned" =>
          /\ afret.success <=> \E i \in 1..Len(runLog) : runLog[i].ok
          /\ afret.success =>
                /\ afret.code = runLog[Len(runLog)].code
                /\ Len(afret.attempts) = Len(runLog) - 1
                /\ \A k \in 1..Len(afret.attempts) :
                      /\ afret.attempts[k].attempt = <<k, "">>
                      /\ afret.attempts[k].code = runLog[k].code
                      /\ ~runLog[k].ok

\* Success at the third run, after two failed runs and two repairs.
C15_Witness ==
    /\ afpc = "returned"
    /\ afret.success
    /\ Len(afret.attempts) = 2
    /\ Len(runLog) = 3


\* The names called in a text, and the methods called on self in it.
CalledNames(e) ==
    {e[i] : i \in {j \in 1..(Len(e) - 1) : IsWord(e[j]) /\ e[j + 1] = "("}}

SelfCalls(e) ==
    {e[i + 2] : i \in {j \in 1..(Len(e) - 3) :
                          e[j] = "self" /\ e[j + 1] = "." /\ e[j + 3] = "("}}

SignalFields == {"entry_long", "exit_long", "entry_short", "exit_short"}

\* C16 (the code does not do this): a signal that calls only cross(a,b) and
\* cross_down(a,b), the functions the translator's prompt offers, is compiled
\* into calls of helper methods that the generated class defines.
C16_PromptFunctionsHaveHelpers ==
    (call # None /\ call.outcome # None /\ call.outcome.tag = "return") =>
        \A f \in SignalFields :
            LET src == OrEmpty(call.dsl.signals[f])
                out == call.outcome.value.next[f]
            IN (CalledNames(src) # {} /\ CalledNames(src) \subseteq PromptFunctions)
                  => /\ SelfCalls(out) # {}
                     /\ SelfCalls(out) \subseteq call.outcome.value.methods


\* C17 (the code does not do this): a series that fetch_data returned, which
\* has passed the fetcher's minimum of 10 data points, is never rejected by
\* run_backtrader with "Insufficient data for backtesting".
C17_FetchedSeriesSufficient ==
    (api # None /\ api.data # None /\ api.result # None) =>
        IF api.result.ok THEN TRUE
        ELSE api.result.error # "Insufficient data for backtesting"


\* C18: when the dates of a /backtest request parse and the start date is
\* not before the end date, or the end date is in the future, the request is
\* answered with HTTP 400 and the detail of the check that failed; this is
\* decided in the dates stage, before any data fetch, language-model call or
\* run, and the outer handler does not turn the 400 into a 500.
C18_BadDatesAnswered400 ==
    (api # None /\ stageLog # <<>>) =>
        LET e == IF request.end_date = None THEN Return(MinusDay(now))
                 ELSE ParseDate(request.end_date)
            s == IF request.start_date # None THEN ParseDate(request.start_date)
                 ELSE IF e.tag = "return" THEN Return(MinusYear(e.value))
                 ELSE e
            parsed == e.tag = "return" /\ s.tag = "return"
            not_before == ~DtAfter(e.value, s.value)
            future == DtAfter(e.value, now)
        IN (parsed /\ (not_before \/ future)) =>
              /\ response # None
              /\ response.status = 400
              /\ response.detail =
                    IF not_before THEN "Start date must be before end date"
                    ELSE "End date cannot be in the future"
              /\ stageLog = <<"dates">>
              /\ api.pc = "done"
              /\ llmLog = <<>>
              /\ runLog = <<>>

\* A request whose end date lies in the future has been answered.
C18_Witness ==
    /\ api # None
    /\ api.pc = "done"
    /\ api.failed_at = "dates"
    /\ request.end_date # None
    /\ request.end_date.day > now.day
    /\ response.status = 400
    /\ response.detail = "End date cannot be in the future"


\* C19 (the code does not do this): the CPU-time and address-space limits
\* set for a run apply to that run only. The process starts without them, so
\* after every runner call that has returned, the first or a later one, the
\* limits of the process are again the ones it started with.
C19_LimitsRestoredAfterRun ==
    (call # None /\ call.outcome # None) => rlimits = NoLimits

\* The mapping read clause by clause: the caret and '=X' tests on the symbol
\* as given, only '/' and '_' removed before the six-letter test.
StatedMapping(symbol) ==
    LET upper == RemoveCh(UpperStr(symbol), " ")
        merged == RemoveCh(RemoveCh(upper, "/"), "_")
    IN IF symbol # <<>> /\ (symbol[1] = "^" \/ EndsWith(symbol, <<"=", "X">>))
       THEN symbol
       ELSE IF Len(Split(upper, "-")) = 2 THEN upper
       ELSE IF Len(merged) = 6 /\ IsAlpha(merged)
       THEN IF SubSeq(merged, 1, 3) \in CryptoBases
               \/ SubSeq(merged, 4, 6) \in {<<"B","T","C">>, <<"E","T","H">>}
            THEN SubSeq(merged, 1, 3) \o <<"-">> \o SubSeq(merged, 4, 6)
            ELSE merged \o <<"=", "X">>
       ELSE LET ps == NonEmptyParts(upper, "/")
                pu == NonEmptyParts(upper, "_")
            IN IF Len(ps) = 2 /\ Len(ps[2]) \in 2..5 /\ Contains(upper, "/")
               THEN ps[1] \o <<"-">> \o ps[2]
               ELSE IF Len(pu) = 2 /\ Len(pu[2]) \in 2..5 /\ Contains(upper, "_")
               THEN pu[1] \o <<"-">> \o pu[2]
               ELSE upper

C21_ScoreWithinScale ==
    (call # None /\ call.outcome # None) =>
        /\ call.outcome.tag = "return"
        /\ call.outcome.value.overall_score \in 0..100
        /\ Len(call.outcome.value.strengths) + Len(call.outcome.value.weaknesses) = 4

\* A call with every key present has scored the full 100.
C21_Witness ==
    /\ call # None
    /\ call.outcome # None
    /\ DOMAIN call.metrics = {"sharpe", "drawdown", "returns", "trades"}
    /\ call.outcome.value.overall_score = 100

\* C22 (the code does not do this): the series fetch_data returns for a
\* requested timeframe was downloaded with the interval of that timeframe; a
\* cache file written for one timeframe is not served for another.
C22_SeriesHasRequestedInterval ==
    (fetch # None /\ fetch.outcome # None /\ fetch.outcome.out.tag = "return")
        => fetch.outcome.out.value.interval = MapTimeframe(fetch.timeframe)

\* C25: a call of fetch_data either returns a frame of at least 10 rows with
\* columns among open, high, low, close and volume, or raises, and a call that
\* raised has neither created nor changed a cache file.
C25_FrameOrRaiseCacheUntouched ==
    (fetch # None /\ fetch.outcome # None) =>
        LET o == fetch.outcome IN
        IF o.out.tag = "return"
        THEN /\ o.out.value # None
             /\ o.out.value.rows >= 10
             /\ o.out.value.cols \subseteq {"open", "high", "low", "close", "volume"}
             /\ o.out.value.cols # {}
        ELSE /\ o.out.tag = "raise"
             /\ ~o.files_changed
             /\ FileAt(cache, o.key) = o.file_before

\* A call that called the provider has raised while the cache held files.
C25_Witness ==
    /\ fetch # None
    /\ fetch.outcome # None
    /\ fetch.outcome.out.tag = "raise"
    /\ fetch.outcome.provider_called
    /\ cache # EmptyFiles

\* C23 (the code does not do this): for every indicator a DSL declares, the
\* __init__ that compile_btp generates assigns self.ind[<indicator id>].
C23_DeclaredIdsAssigned ==
    (call # None /\ call.outcome # None /\ call.outcome.tag = "return") =>
        \A i \in 1..Len(call.dsl.indicators) :
            \E j \in 1..Len(call.outcome.value.init) :
                call.outcome.value.init[j].key = call.dsl.indicators[i].id

\* The value self.ind[key] holds after the statements of init ran in order.
FinalValue(init, key) ==
    LET idx == {j \in 1..Len(init) : init[j].key = key} IN
    IF idx = {} THEN None
    ELSE init[CHOOSE j \in idx : \A k \in idx : k <= j].value

\* C24 (the code does not do this): when a DSL declares one BBANDS indicator
\* with period P and std S, whatever its id, self.ind['bb_upper'],
\* self.ind['bb_middle'] and self.ind['bb_lower'] are after the generated
\* __init__ the top, mid and bot lines of a band with period P and devfactor S.
C24_BandParamsInEffect ==
    (call # None /\ call.outcome # None /\ call.outcome.tag = "return") =>
        \A i \in 1..Len(call.dsl.indicators) :
            LET ind == call.dsl.indicators[i]
                others == {k \in 1..Len(call.dsl.indicators) :
                              k # i /\ call.dsl.indicators[k].fn = "BBANDS"}
                init == call.outcome.value.init
            IN (/\ ind.fn = "BBANDS"
                /\ others = {}
                /\ {"period", "std"} \subseteq DOMAIN ind.params
                /\ ind.params["std"] # 0)
               => \A p \in {<<"bb_upper", "top">>, <<"bb_middle", "mid">>,
                            <<"bb_lower", "bot">>} :
                     /\ FinalValue(init, p[1]) # None
                     /\ FinalValue(init, p[1]).line = p[2]
                     /\ FinalValue(init, p[1]).args
                          = ("period" :> ind.params["period"]
                             @@ "devfactor" :> ind.params["std"])

============================================================================
